---- MODULE Spec2Model ----
(***************************************************************************)
(* Model of the flash_algorithm! ABI shim of FlashOps (src/src/lib.rs):     *)
(* the INIT_FLAG / ALGO_INSTANCE lifecycle, the guarded entry points, the   *)
(* raw-argument marshalling, and the generated device descriptor.          *)
(***************************************************************************)
EXTENDS Integers, Sequences, FiniteSets, TLC

----------------------------------------------------------------------------
(* Bounds of the model *)

\* number of bytes of the host buffer that data pointers may point into
MemSize == 4
\* the implementation's error codes are 1..MaxErr
MaxErr == 2
\* a configuration declares 1..MaxSectors sectors
MaxSectors == 3

----------------------------------------------------------------------------
(* Program constants *)

ERASE == 1
PROGRAM == 2
VERIFY == 3
\* the literal returned by every guard when INIT_FLAG is false
NOT_INITIALIZED == 1
\* one 16-bit half of 0xffff_ffff; a u32 of the descriptor is <<high, low>>
HALF_MAX == 65535

----------------------------------------------------------------------------
(* Values *)

\* "no value": an argument the entry point does not have, or a call that
\* never returned
NoValue == 0 - 1

Addresses == {0, 4096}
\* the (address, clock) pairs the host may pass to initialize
InitArgs == {<<0, 0>>, <<4096, 8>>}
\* raw operation codes the host may pass: the three valid ones and another
OpCodes == {ERASE, PROGRAM, VERIFY, 9}
ErrCodes == 1..MaxErr

\* pointers: 0 is null, 1..MemSize address the bytes of the host buffer,
\* MemSize + 1 is one past its end
Pattern == <<222, 173, 190, 239>>
\* contents of the host buffer: DE AD BE EF, repeated
HostMemory == [i \in 1..MemSize |-> Pattern[((i - 1) % 4) + 1]]
\* the <<data, size>> pairs the host may pass: null pointers, the whole
\* buffer, an empty view, an interior byte, and a view that runs past the end
Buffers ==
    {<<0, 0>>, <<0, MemSize>>, <<1, 0>>, <<1, MemSize>>, <<2, 1>>, <<2, MemSize>>}
\* what a read outside the host buffer may yield
JunkBytes == {0, 255}
\* what undefined behaviour may do to the running call
UBOutcomes == {"proceed", "trap"}

\* Result<(), Error>
Ok == [ok |-> TRUE, err |-> 0]
Err(e) == [ok |-> FALSE, err |-> e]
\* the method did not return (the call trapped)
Trapped == [ok |-> FALSE, err |-> 0]
Results == {Ok} \cup {Err(e) : e \in ErrCodes}

\* Option<&[u8]>
None == [some |-> FALSE, view |-> <<>>]
Some(v) == [some |-> TRUE, view |-> v]

\* enum Operation
Operation == {"Erase", "Program", "Verify"}

NoInstance == [address |-> NoValue, clock |-> NoValue, operation |-> "None", dirty |-> FALSE]
\* MaybeUninit::uninit()
Uninit == [st |-> "uninit", inst |-> NoInstance]

VARIABLES
    INIT_FLAG,      \* static mut INIT_FLAG
    ALGO_INSTANCE,  \* static mut ALGO_INSTANCE: [st, inst]
    aborted,        \* the target has trapped (panic handler / fault)
    pre,            \* INIT_FLAG, ALGO_INSTANCE and life before the last call
    last,           \* the last entry-point call and its return value
    calls,          \* implementation methods invoked by the last call
    life,           \* the last initialize/deinitialize call, its return, and
                    \* whether the latest initialize returned 0
    config,         \* the macro's device configuration
    descriptor,     \* the generated FlashDeviceInfo
    pc              \* the statement the running entry point is at, or "idle"

vars == <<INIT_FLAG, ALGO_INSTANCE, aborted, pre, last, calls, life, config, descriptor, pc>>
shim == <<INIT_FLAG, ALGO_INSTANCE, aborted, pre, last, calls, life, pc>>

----------------------------------------------------------------------------
(* The Operation Interface (trait FlashOps) as the shim sees it *)

\* NonZeroU32::get
get(e) == e.err

\* T::create: the implementation either fails with a code or returns a fresh
\* instance configured from its arguments; outcome 0 is success
create(address, clock, operation, outcome) ==
    IF outcome = 0
    THEN [ok |-> TRUE, err |-> 0,
          val |-> [address |-> address, clock |-> clock,
                   operation |-> operation, dirty |-> FALSE]]
    ELSE [ok |-> FALSE, err |-> outcome, val |-> NoInstance]

\* one invocation of an implementation method, as the implementation observes it
Call(method, address, clock, operation, size, data, recv, result) ==
    [method |-> method, address |-> address, clock |-> clock,
     operation |-> operation, size |-> size, data |-> data,
     recv |-> recv, result |-> result]

\* what an entry point leaves behind: the statics, the returned value, the
\* implementation methods it invoked, and whether it trapped instead of returning
Step(flag, slot, ret, invoked, trap) ==
    [flag |-> flag, slot |-> slot, ret |-> ret, calls |-> invoked, aborted |-> trap]

----------------------------------------------------------------------------
(* Helpers of the generated entry points *)

\* mutant: the match has a default arm instead of the panic
DecodeOperation_default(op) ==
    CASE op = 1 -> "Erase"
      [] op = 2 -> "Program"
      [] op = 3 -> "Verify"
      [] OTHER -> "Erase"

\* match op { 1 => Erase, 2 => Program, 3 => Verify, _ => panic!(..) }
DecodeOperation(op) ==
    CASE op = 1 -> "Erase"
      [] op = 2 -> "Program"
      [] op = 3 -> "Verify"
      [] OTHER -> "panic"

\* mutant: every error is reported as the generic code
ResultToU32_generic(r) == IF r.ok THEN 0 ELSE NOT_INITIALIZED

\* match result { Ok(..) => 0, Err(e) => e.get() }
ResultToU32(r) == IF r.ok THEN 0 ELSE get(r)

\* the pointer is non-null and the size bytes it names lie in the host buffer
ValidPointer(data, size) == data >= 1 /\ data + size <= MemSize + 1

\* mutant: the view starts one byte after data
from_raw_parts_shifted(mem, data, size, junk) ==
    [i \in 1..size |->
        IF data >= 1 /\ data + i <= MemSize THEN mem[data + i] ELSE junk]

\* core::slice::from_raw_parts(data, size as usize): the size bytes at data;
\* a byte outside the host buffer (or behind a null pointer) reads as junk
from_raw_parts(mem, data, size, junk) ==
    [i \in 1..size |->
        IF data >= 1 /\ data + i - 1 <= MemSize THEN mem[data + i - 1] ELSE junk]

\* mutant: an empty buffer is treated like a null pointer
data_slice_empty_none(mem, data, size, junk) ==
    IF data = 0 \/ size = 0 THEN None ELSE Some(from_raw_parts(mem, data, size, junk))

\* if data.is_null() { None } else { Some(from_raw_parts(data, size)) }
data_slice(mem, data, size, junk) ==
    IF data = 0 THEN None ELSE Some(from_raw_parts(mem, data, size, junk))

\* ALGO_INSTANCE.as_mut_ptr().drop_in_place()
drop_in_place(slot) ==
    [st |-> IF slot.st = "live" THEN "dropped" ELSE slot.st, inst |-> slot.inst]

\* mutant: the write leaves part of the slot's earlier contents in place
write_keeps_state(slot, instance) ==
    [st |-> "live", inst |-> [instance EXCEPT !.dirty = slot.inst.dirty]]

\* ALGO_INSTANCE.as_mut_ptr().write(instance)
write(slot, instance) == [st |-> "live", inst |-> instance]

\* a &mut self method changes the instance it is given: the modelled
\* implementation records that it has been used
Touch(slot) ==
    IF slot.st = "uninit" THEN slot
    ELSE [st |-> slot.st, inst |-> [slot.inst EXCEPT !.dirty = TRUE]]

\* mutant: an operation that fails tears the instance down
Dispatch_resets_on_error(slot, method, address, size, data, defined, res, ub) ==
    IF (slot.st # "live" \/ ~defined) /\ ub = "trap"
    THEN Step(TRUE, slot, NoValue,
              <<Call(method, address, NoValue, "None", size, data, slot.st, Trapped)>>,
              TRUE)
    ELSE Step(res.ok, IF res.ok THEN Touch(slot) ELSE drop_in_place(slot),
              ResultToU32(res),
              <<Call(method, address, NoValue, "None", size, data, slot.st, res)>>,
              FALSE)

\* let instance = &mut *ALGO_INSTANCE.as_mut_ptr(); match T::method(instance, ..)
\* { Ok(()) => 0, Err(e) => e.get() }.  Forming the reference to a slot that
\* holds no live instance, or handing the method a view of memory outside the
\* host buffer, is undefined: the method runs on garbage or the call traps.
Dispatch(slot, method, address, size, data, defined, res, ub) ==
    IF (slot.st # "live" \/ ~defined) /\ ub = "trap"
    THEN Step(TRUE, slot, NoValue,
              <<Call(method, address, NoValue, "None", size, data, slot.st, Trapped)>>,
              TRUE)
    ELSE Step(TRUE, Touch(slot), ResultToU32(res),
              <<Call(method, address, NoValue, "None", size, data, slot.st, res)>>,
              FALSE)

----------------------------------------------------------------------------
(* The generated entry points, as functions of the statics and the inputs *)

\* mutant: the instance is destroyed but INIT_FLAG is not cleared
deinitialize_keeps_flag(flag, slot, ub) ==
    IF ~flag
    THEN Step(flag, slot, NOT_INITIALIZED, <<>>, FALSE)
    ELSE IF slot.st # "live" /\ ub = "trap"
    THEN Step(flag, slot, NoValue,
              <<Call("drop", NoValue, NoValue, "None", NoValue, None, slot.st, Trapped)>>,
              TRUE)
    ELSE Step(TRUE, drop_in_place(slot), 0,
              <<Call("drop", NoValue, NoValue, "None", NoValue, None, slot.st, Ok)>>,
              FALSE)

deinitialize_body(flag, slot, ub) ==
    IF ~flag
    THEN Step(flag, slot, NOT_INITIALIZED, <<>>, FALSE)
    ELSE IF slot.st # "live" /\ ub = "trap"
    THEN Step(flag, slot, NoValue,
              <<Call("drop", NoValue, NoValue, "None", NoValue, None, slot.st, Trapped)>>,
              TRUE)
    ELSE Step(FALSE, drop_in_place(slot), 0,
              <<Call("drop", NoValue, NoValue, "None", NoValue, None, slot.st, Ok)>>,
              FALSE)

\* mutant: initialize does not deinitialize a previous instance first
initialize_no_deinit(flag, slot, addr, clock, op, outcome, ub) ==
    LET operation == DecodeOperation(op)
        r == create(addr, clock, operation, outcome)
        made == <<Call("create", addr, clock, operation, NoValue, None, "none",
                       IF r.ok THEN Ok ELSE Err(r.err))>>
    IN  IF operation = "panic"
        THEN Step(TRUE, slot, NoValue, <<>>, TRUE)
        ELSE IF r.ok
        THEN Step(TRUE, write(slot, r.val), 0, made, FALSE)
        ELSE Step(TRUE, slot, get(r), made, FALSE)

initialize_body(flag, slot, addr, clock, op, outcome, ub) ==
    LET d == IF flag THEN deinitialize_body(flag, slot, ub)
                     ELSE Step(flag, slot, NoValue, <<>>, FALSE)
        operation == DecodeOperation(op)
        r == create(addr, clock, operation, outcome)
        made == <<Call("create", addr, clock, operation, NoValue, None, "none",
                       IF r.ok THEN Ok ELSE Err(r.err))>>
    IN  IF d.aborted THEN d
        ELSE IF operation = "panic"
        THEN Step(TRUE, d.slot, NoValue, d.calls, TRUE)
        ELSE IF r.ok
        THEN Step(TRUE, write(d.slot, r.val), 0, d.calls \o made, FALSE)
        ELSE Step(TRUE, d.slot, get(r), d.calls \o made, FALSE)

erase_sector_body(flag, slot, addr, res, ub) ==
    IF ~flag
    THEN Step(flag, slot, NOT_INITIALIZED, <<>>, FALSE)
    ELSE Dispatch(slot, "erase_sector", addr, NoValue, None, TRUE, res, ub)

program_page_body(flag, slot, addr, size, data, mem, junk, res, ub) ==
    IF ~flag
    THEN Step(flag, slot, NOT_INITIALIZED, <<>>, FALSE)
    ELSE Dispatch(slot, "program_page", addr, NoValue,
                  Some(from_raw_parts(mem, data, size, junk)),
                  ValidPointer(data, size), res, ub)

erase_chip_body(flag, slot, res, ub) ==
    IF ~flag
    THEN Step(flag, slot, NOT_INITIALIZED, <<>>, FALSE)
    ELSE Dispatch(slot, "erase_chip", NoValue, NoValue, None, TRUE, res, ub)

verify_body(flag, slot, addr, size, data, mem, junk, res, ub) ==
    IF ~flag
    THEN Step(flag, slot, NOT_INITIALIZED, <<>>, FALSE)
    ELSE Dispatch(slot, "verify", addr, size,
                  data_slice(mem, data, size, junk),
                  data = 0 \/ ValidPointer(data, size), res, ub)

----------------------------------------------------------------------------
(* The device descriptor *)

U32(high, low) == <<high, low>>
Sector(size, address) == [size |-> size, address |-> address]
SectorSizes == {U32(0, 4096), U32(HALF_MAX, HALF_MAX)}
SectorAddresses == {U32(0, 0), U32(0, 4096)}
Sectors == {Sector(s, a) : s \in SectorSizes, a \in SectorAddresses}

RECURSIVE SeqsUpTo(_, _)
\* the sequences over S of length 1..n
SeqsUpTo(S, n) ==
    IF n = 0 THEN {}
    ELSE IF n = 1 THEN {<<x>> : x \in S}
    ELSE LET shorter == SeqsUpTo(S, n - 1)
         IN  shorter \cup {Append(q, x) : q \in {t \in shorter : Len(t) = n - 1}, x \in S}

Config(sectors, empty) ==
    [flash_address |-> 0, flash_size |-> 8192, page_size |-> 2,
     empty_value |-> empty, sectors |-> sectors]
Configs == {Config(q, e) : q \in SeqsUpTo(Sectors, MaxSectors), e \in {255}}
\* the two-sector configuration of the scenario
ScenarioConfig ==
    Config(<<Sector(U32(0, 4096), U32(0, 0)), Sector(U32(0, 4096), U32(0, 4096))>>, 255)

\* mutant: the first token is dropped without being counted
count_miscounted(tokens) == IF tokens = <<>> THEN 0 ELSE Len(tokens) - 1

RECURSIVE count(_)
\* macro_rules! count: () => 0; ($x $($xs)*) => 1 + count!($($xs)*)
count(tokens) == IF tokens = <<>> THEN 0 ELSE 1 + count(Tail(tokens))

\* flash_sectors: [ $( Sector { size, address } ),+ , Sector { 0xffff_ffff, 0xffff_ffff } ]
flash_sectors(sectors) ==
    [i \in 1..Len(sectors) |-> Sector(sectors[i].size, sectors[i].address)]
        \o <<Sector(U32(HALF_MAX, HALF_MAX), U32(HALF_MAX, HALF_MAX))>>

\* the tokens handed to count!: $($sector_size)*
sector_size_tokens(sectors) == [i \in 1..Len(sectors) |-> sectors[i].size]

\* pub static FlashDeviceInfo: FlashDevice, with the length of its array type
FlashDeviceInfo(cfg) ==
    [vers |-> 0, dev_name |-> [byte |-> 0, len |-> 128], dev_type |-> 5,
     dev_addr |-> cfg.flash_address, device_size |-> cfg.flash_size,
     page_size |-> cfg.page_size, reserved |-> 0, empty |-> cfg.empty_value,
     program_time_out |-> 1000, erase_time_out |-> 2000,
     flash_sectors |-> flash_sectors(cfg.sectors),
     flash_sectors_len |-> count(sector_size_tokens(cfg.sectors)) + 1]

----------------------------------------------------------------------------
(* The state machine of the shim: one action per entry point *)

NoCall ==
    [fn |-> "none", addr |-> NoValue, clock |-> NoValue, op |-> NoValue,
     size |-> NoValue, data |-> NoValue, ret |-> NoValue]
NoLife == [fn |-> "none", ret |-> NoValue, ok_init |-> FALSE]

Init ==
    /\ INIT_FLAG = FALSE
    /\ ALGO_INSTANCE = Uninit
    /\ aborted = FALSE
    /\ pre = [flag |-> FALSE, slot |-> Uninit, life |-> NoLife]
    /\ last = NoCall
    /\ calls = <<>>
    /\ life = NoLife
    /\ config = ScenarioConfig
    /\ descriptor = <<FlashDeviceInfo(ScenarioConfig)>>
    /\ pc = "idle"

\* the host calls entry point fn; s is what the entry point did
Enter(fn, addr, clock, op, size, data, s) ==
    /\ ~aborted
    /\ pc = "idle"
    /\ INIT_FLAG' = s.flag
    /\ ALGO_INSTANCE' = s.slot
    /\ aborted' = s.aborted
    /\ calls' = s.calls
    /\ pre' = [flag |-> INIT_FLAG, slot |-> ALGO_INSTANCE, life |-> life]
    /\ last' = [fn |-> fn, addr |-> addr, clock |-> clock, op |-> op,
                size |-> size, data |-> data, ret |-> s.ret]
    /\ life' = IF fn = "initialize"
               THEN [fn |-> fn, ret |-> s.ret, ok_init |-> s.ret = 0]
               ELSE IF fn = "deinitialize"
               THEN [fn |-> fn, ret |-> s.ret, ok_init |-> life.ok_init]
               ELSE life
    /\ UNCHANGED <<config, descriptor, pc>>

\* The inputs that cannot influence a call are not enumerated: the
\* implementation's result when the guard returns early, the junk byte when
\* the view lies in the host buffer, the outcome of undefined behaviour when
\* the call has none.
ImplResults == IF INIT_FLAG THEN Results ELSE {Ok}
CreateOutcomes(op) == IF DecodeOperation(op) = "panic" THEN {0} ELSE 0..MaxErr
Junk(defined) == IF INIT_FLAG /\ ~defined THEN JunkBytes ELSE {0}
UB(defined) ==
    IF INIT_FLAG /\ (ALGO_INSTANCE.st # "live" \/ ~defined)
    THEN UBOutcomes ELSE {"proceed"}

initialize ==
    \E args \in InitArgs, op \in OpCodes :
    \E outcome \in CreateOutcomes(op), ub \in UB(TRUE) :
        Enter("initialize", args[1], args[2], op, NoValue, NoValue,
              initialize_body(INIT_FLAG, ALGO_INSTANCE, args[1], args[2], op, outcome, ub))

deinitialize ==
    \E ub \in UB(TRUE) :
        Enter("deinitialize", NoValue, NoValue, NoValue, NoValue, NoValue,
              deinitialize_body(INIT_FLAG, ALGO_INSTANCE, ub))

erase_sector ==
    \E addr \in Addresses, res \in ImplResults, ub \in UB(TRUE) :
        Enter("erase_sector", addr, NoValue, NoValue, NoValue, NoValue,
              erase_sector_body(INIT_FLAG, ALGO_INSTANCE, addr, res, ub))

program_page ==
    \E addr \in Addresses, buf \in Buffers, res \in ImplResults :
    \E junk \in Junk(ValidPointer(buf[1], buf[2])),
       ub \in UB(ValidPointer(buf[1], buf[2])) :
        Enter("program_page", addr, NoValue, NoValue, buf[2], buf[1],
              program_page_body(INIT_FLAG, ALGO_INSTANCE, addr, buf[2], buf[1],
                                HostMemory, junk, res, ub))

erase_chip ==
    \E res \in ImplResults, ub \in UB(TRUE) :
        Enter("erase_chip", NoValue, NoValue, NoValue, NoValue, NoValue,
              erase_chip_body(INIT_FLAG, ALGO_INSTANCE, res, ub))

verify ==
    \E addr \in Addresses, buf \in Buffers, res \in ImplResults :
    \E junk \in Junk(buf[1] = 0 \/ ValidPointer(buf[1], buf[2])),
       ub \in UB(buf[1] = 0 \/ ValidPointer(buf[1], buf[2])) :
        Enter("verify", addr, NoValue, NoValue, buf[2], buf[1],
              verify_body(INIT_FLAG, ALGO_INSTANCE, addr, buf[2], buf[1],
                          HostMemory, junk, res, ub))

Next ==
    \/ initialize
    \/ deinitialize
    \/ erase_sector
    \/ program_page
    \/ erase_chip
    \/ verify

Spec == Init /\ [][Next]_vars

----------------------------------------------------------------------------
(* The expansion of flash_algorithm! for a configuration *)

DescInit ==
    /\ INIT_FLAG = FALSE
    /\ ALGO_INSTANCE = Uninit
    /\ aborted = FALSE
    /\ pre = [flag |-> FALSE, slot |-> Uninit, life |-> NoLife]
    /\ last = NoCall
    /\ calls = <<>>
    /\ life = NoLife
    /\ config \in Configs
    /\ descriptor = <<>>
    /\ pc = "idle"

\* the macro emits the descriptor of the configuration it was given
flash_algorithm ==
    /\ descriptor = <<>>
    /\ descriptor' = <<FlashDeviceInfo(config)>>
    /\ UNCHANGED <<config, shim>>

DescNext == flash_algorithm

DescSpec == DescInit /\ [][DescNext]_vars

----------------------------------------------------------------------------
(* initialize and deinitialize statement by statement; pc names the source
   line about to run.  The deinitialize that initialize calls at line 52 runs
   the same lines 77 and 78 (its guard at line 74 passes: the flag was just
   read as true). *)

\* the host calls an entry point: nothing has run yet
Begin(fn, addr, clock, op, at) ==
    /\ ~aborted
    /\ pc = "idle"
    /\ pre' = [flag |-> INIT_FLAG, slot |-> ALGO_INSTANCE, life |-> life]
    /\ last' = [fn |-> fn, addr |-> addr, clock |-> clock, op |-> op,
                size |-> NoValue, data |-> NoValue, ret |-> NoValue]
    /\ calls' = <<>>
    /\ pc' = at
    /\ UNCHANGED <<INIT_FLAG, ALGO_INSTANCE, aborted, life, config, descriptor>>

\* the running entry point returns ret to the host
Return(ret) ==
    /\ last' = [last EXCEPT !.ret = ret]
    /\ life' = [fn |-> last.fn, ret |-> ret,
                ok_init |-> IF last.fn = "initialize" THEN ret = 0 ELSE life.ok_init]
    /\ pc' = "idle"

call_initialize ==
    \E args \in InitArgs, op \in OpCodes :
        Begin("initialize", args[1], args[2], op, "initialize_51")

call_deinitialize ==
    Begin("deinitialize", NoValue, NoValue, NoValue, "deinitialize_74")

\* line 51: if INIT_FLAG { deinitialize(); }
initialize_51 ==
    /\ ~aborted /\ pc = "initialize_51"
    /\ pc' = IF INIT_FLAG THEN "initialize_77" ELSE "initialize_54"
    /\ UNCHANGED <<INIT_FLAG, ALGO_INSTANCE, aborted, pre, last, calls, life,
                   config, descriptor>>

\* line 74: if !INIT_FLAG { return 1; }
deinitialize_74 ==
    /\ ~aborted /\ pc = "deinitialize_74"
    /\ IF INIT_FLAG
       THEN pc' = "deinitialize_77" /\ UNCHANGED <<last, life>>
       ELSE Return(NOT_INITIALIZED)
    /\ UNCHANGED <<INIT_FLAG, ALGO_INSTANCE, aborted, pre, calls, config, descriptor>>

\* line 77: ALGO_INSTANCE.as_mut_ptr().drop_in_place(); dropping a slot that
\* holds no live instance is undefined: it goes through or traps
line_77 ==
    /\ ~aborted /\ pc \in {"initialize_77", "deinitialize_77"}
    /\ \E ub \in (IF ALGO_INSTANCE.st = "live" THEN {"proceed"} ELSE UBOutcomes) :
          IF ub = "trap"
          THEN /\ aborted' = TRUE
               /\ calls' = Append(calls, Call("drop", NoValue, NoValue, "None", NoValue,
                                              None, ALGO_INSTANCE.st, Trapped))
               /\ UNCHANGED <<ALGO_INSTANCE, pc>>
          ELSE /\ ALGO_INSTANCE' = drop_in_place(ALGO_INSTANCE)
               /\ calls' = Append(calls, Call("drop", NoValue, NoValue, "None", NoValue,
                                              None, ALGO_INSTANCE.st, Ok))
               /\ pc' = IF pc = "initialize_77" THEN "initialize_78" ELSE "deinitialize_78"
               /\ UNCHANGED aborted
    /\ UNCHANGED <<INIT_FLAG, pre, last, life, config, descriptor>>

\* line 78: INIT_FLAG = false; line 79: 0 (discarded by initialize)
line_78 ==
    /\ ~aborted /\ pc \in {"initialize_78", "deinitialize_78"}
    /\ INIT_FLAG' = FALSE
    /\ IF pc = "deinitialize_78"
       THEN Return(0)
       ELSE pc' = "initialize_54" /\ UNCHANGED <<last, life>>
    /\ UNCHANGED <<ALGO_INSTANCE, aborted, pre, calls, config, descriptor>>

\* line 54: INIT_FLAG = true;
initialize_54 ==
    /\ ~aborted /\ pc = "initialize_54"
    /\ INIT_FLAG' = TRUE
    /\ pc' = "initialize_55"
    /\ UNCHANGED <<ALGO_INSTANCE, aborted, pre, last, calls, life, config, descriptor>>

\* lines 55-60: let op = match op { .. _ => panic!(..) };
initialize_55 ==
    /\ ~aborted /\ pc = "initialize_55"
    /\ IF DecodeOperation(last.op) = "panic"
       THEN aborted' = TRUE /\ UNCHANGED pc
       ELSE pc' = "initialize_61" /\ UNCHANGED aborted
    /\ UNCHANGED <<INIT_FLAG, ALGO_INSTANCE, pre, last, calls, life, config, descriptor>>

\* line 61: match T::create(addr, clock, op); line 67: Err(e) => e.get()
initialize_61 ==
    /\ ~aborted /\ pc = "initialize_61"
    /\ \E outcome \in 0..MaxErr :
          LET r == create(last.addr, last.clock, DecodeOperation(last.op), outcome)
          IN  /\ calls' = Append(calls,
                     Call("create", last.addr, last.clock, DecodeOperation(last.op),
                          NoValue, None, "none", IF r.ok THEN Ok ELSE Err(r.err)))
              /\ IF r.ok
                 THEN pc' = "initialize_63" /\ UNCHANGED <<last, life>>
                 ELSE Return(get(r))
    /\ UNCHANGED <<INIT_FLAG, ALGO_INSTANCE, aborted, pre, config, descriptor>>

\* line 63: ALGO_INSTANCE.as_mut_ptr().write(instance);
initialize_63 ==
    /\ ~aborted /\ pc = "initialize_63"
    /\ ALGO_INSTANCE' =
          write(ALGO_INSTANCE,
                create(last.addr, last.clock, DecodeOperation(last.op), 0).val)
    /\ pc' = "initialize_64"
    /\ UNCHANGED <<INIT_FLAG, aborted, pre, last, calls, life, config, descriptor>>

\* line 64: INIT_FLAG = true; line 65: 0
initialize_64 ==
    /\ ~aborted /\ pc = "initialize_64"
    /\ INIT_FLAG' = TRUE
    /\ Return(0)
    /\ UNCHANGED <<ALGO_INSTANCE, aborted, pre, calls, config, descriptor>>

StepNext ==
    \/ call_initialize
    \/ initialize_51
    \/ initialize_54
    \/ initialize_55
    \/ initialize_61
    \/ initialize_63
    \/ initialize_64
    \/ call_deinitialize
    \/ deinitialize_74
    \/ line_77
    \/ line_78
    \/ erase_sector

StepSpec == Init /\ [][StepNext]_vars

\* between calls, the statements have done what the entry point as a whole does
StepsAgreeWithBodies ==
    (pc = "idle" /\ ~aborted /\ last.fn \in {"initialize", "deinitialize"}) =>
        \E outcome \in 0..MaxErr :
            LET s == IF last.fn = "initialize"
                     THEN initialize_body(pre.flag, pre.slot, last.addr, last.clock,
                                          last.op, outcome, "proceed")
                     ELSE deinitialize_body(pre.flag, pre.slot, "proceed")
            IN  /\ INIT_FLAG = s.flag
                /\ ALGO_INSTANCE = s.slot
                /\ last.ret = s.ret
                /\ calls = s.calls

----------------------------------------------------------------------------
(* Vocabulary of the properties *)

Guarded == {"deinitialize", "erase_sector", "program_page", "erase_chip", "verify"}
Operations == {"erase_sector", "program_page", "erase_chip", "verify"}
ValidOps == {ERASE, PROGRAM, VERIFY}

\* before the last call no instance was live by the lifecycle: no initialize
\* yet, a deinitialize since the latest initialize, or a latest initialize
\* whose T::create returned an error
UninitializedBefore ==
    \/ pre.life.fn = "none"
    \/ pre.life.fn = "deinitialize"
    \/ pre.life.fn = "initialize" /\ pre.life.ret \notin {0, NoValue}

\* before the last call the slot held a live instance and the flag was set
InitializedBefore == pre.flag /\ pre.slot.st = "live"

\* the last call invoked T::create and it returned Err
CreateFailed ==
    /\ last.fn = "initialize"
    /\ calls # <<>>
    /\ calls[Len(calls)].method = "create"
    /\ ~calls[Len(calls)].result.ok

----------------------------------------------------------------------------
(* C1 .. C4: the lifecycle guard *)

\* C1: a guarded entry point called while the system is uninitialized (before
\* any initialize, after a deinitialize, or after an initialize whose create
\* returned an error) returns exactly 1, invokes no method of the
\* implementation, and leaves INIT_FLAG and ALGO_INSTANCE unchanged.
C1_GuardedWhileUninitialized ==
    (last.fn \in Guarded /\ UninitializedBefore) =>
        /\ last.ret = 1
        /\ calls = <<>>
        /\ INIT_FLAG = pre.flag
        /\ ALGO_INSTANCE = pre.slot

\* C2: when initialize is given a valid operation code and T::create returns
\* Err(code), initialize returns that code and INIT_FLAG is false on return.
C2_FailedCreateLeavesFlagFalse ==
    (CreateFailed /\ last.op \in ValidOps) =>
        /\ last.ret = calls[Len(calls)].result.err
        /\ INIT_FLAG = FALSE

\* C3: between calls, INIT_FLAG is true if and only if ALGO_INSTANCE holds a
\* constructed, not yet destroyed instance.
C3_FlagIffInstanceLive ==
    ~aborted => (INIT_FLAG <=> ALGO_INSTANCE.st = "live")

\* C4: the deinitialize that follows an initialize that returned 0 (no other
\* initialize in between) returns 0, destroys the live instance and clears
\* the flag; every guarded call after it and before the next initialize,
\* a further deinitialize included, returns 1.
C4_DeinitializeAfterInitialize ==
    /\ (last.fn = "deinitialize" /\ pre.life.fn = "initialize" /\ pre.life.ret = 0) =>
          /\ last.ret = 0
          /\ ~aborted
          /\ Len(calls) = 1
          /\ calls[1].method = "drop" /\ calls[1].recv = "live"
          /\ pre.slot.st = "live" /\ ALGO_INSTANCE.st = "dropped"
          /\ INIT_FLAG = FALSE
    /\ (last.fn \in Guarded /\ pre.life.fn = "deinitialize" /\ pre.life.ok_init) =>
          /\ last.ret = 1
          /\ calls = <<>>

\* a second deinitialize, after initialize returned 0 and deinitialize returned 0
C4_Witness ==
    /\ last.fn = "deinitialize"
    /\ pre.life = [fn |-> "deinitialize", ret |-> 0, ok_init |-> TRUE]
    /\ life.ret = 1

----------------------------------------------------------------------------
(* C5 .. C6: initialize *)

\* C5: from an initialized state, initialize(address, clock, op) with a valid
\* op leaves the same return value, flag and instance as deinitialize followed
\* by the same initialize, for every outcome of T::create; the implicit
\* deinitialize contributes nothing to the return value.
C5_ReinitializeEqualsDeinitThenInit ==
    /\ (last.fn = "initialize" /\ InitializedBefore /\ last.op \in ValidOps) =>
          LET outcome == ResultToU32(calls[Len(calls)].result)
              d == deinitialize_body(pre.flag, pre.slot, "proceed")
              again == initialize_body(d.flag, d.slot, last.addr, last.clock,
                                       last.op, outcome, "proceed")
          IN  /\ d.ret = 0 /\ ~d.aborted
              /\ last.ret = again.ret
              /\ last.ret = outcome
              /\ INIT_FLAG = again.flag
              /\ ALGO_INSTANCE = again.slot
              /\ aborted = again.aborted
              /\ calls = d.calls \o again.calls
    /\ (~aborted /\ INIT_FLAG /\ ALGO_INSTANCE.st = "live") =>
          \A args \in InitArgs, op \in ValidOps, outcome \in 0..MaxErr :
              LET direct == initialize_body(INIT_FLAG, ALGO_INSTANCE, args[1], args[2],
                                            op, outcome, "proceed")
                  d == deinitialize_body(INIT_FLAG, ALGO_INSTANCE, "proceed")
                  again == initialize_body(d.flag, d.slot, args[1], args[2],
                                           op, outcome, "proceed")
              IN  /\ direct.ret = again.ret
                  /\ direct.flag = again.flag
                  /\ direct.slot = again.slot
                  /\ direct.aborted = again.aborted

\* initialize was called on a used live instance and T::create failed
C5_Witness ==
    /\ last.fn = "initialize" /\ InitializedBefore /\ last.op \in ValidOps
    /\ pre.slot.inst.dirty
    /\ last.ret = 2
    /\ ALGO_INSTANCE.st = "dropped"

\* C6: initialize with an operation code outside {1, 2, 3} never returns: the
\* target traps, whatever the prior state, and T::create is not called.
C6_InvalidOperationAborts ==
    (last.fn = "initialize" /\ last.op \notin ValidOps) =>
        /\ aborted
        /\ last.ret = NoValue
        /\ \A i \in 1..Len(calls) : calls[i].method # "create"

\* initialize(.., 9) on an initialized system
C6_Witness ==
    /\ last.fn = "initialize" /\ last.op = 9
    /\ InitializedBefore
    /\ aborted

----------------------------------------------------------------------------
(* C7 .. C9: dispatch and marshalling *)

\* C7: while initialized, erase_sector, program_page, erase_chip and verify
\* return 0 exactly when the implementation method returned Ok(()), and
\* return the implementation's code unchanged when it returned Err(code),
\* a code of 1 included.
C7_ResultPassedThrough ==
    (last.fn \in Operations /\ InitializedBefore) =>
        /\ Len(calls) = 1
        /\ calls[1].method = last.fn
        /\ calls[1].recv = "live"
        /\ (last.ret = 0) <=> calls[1].result.ok
        /\ \A e \in ErrCodes : calls[1].result = Err(e) => last.ret = e

\* the implementation fails erase_chip with its own code 1
C7_Witness ==
    /\ last.fn = "erase_chip" /\ InitializedBefore
    /\ calls[1].result = Err(1)
    /\ last.ret = 1

\* C8: while initialized, program_page(addr, size, data) with data valid for
\* size bytes calls T::program_page exactly once, with the same addr and a
\* view of exactly the size bytes at data, for every size, 0 and sizes above
\* the configured page size included; its return value is the method's result.
C8_ProgramPageView ==
    (last.fn = "program_page" /\ InitializedBefore
        /\ ValidPointer(last.data, last.size)) =>
        /\ ~aborted
        /\ Len(calls) = 1
        /\ calls[1].method = "program_page"
        /\ calls[1].recv = "live"
        /\ calls[1].address = last.addr
        /\ calls[1].data.some
        /\ Len(calls[1].data.view) = last.size
        /\ \A i \in 1..last.size :
              calls[1].data.view[i] = HostMemory[last.data + i - 1]
        /\ last.ret = (IF calls[1].result.ok THEN 0 ELSE calls[1].result.err)

\* the scenario: initialize(0, 0, 2), then program_page(0x0, 4, [DE, AD, BE, EF])
\* accepted by the implementation
C8_Witness ==
    /\ last.fn = "program_page" /\ InitializedBefore
    /\ pre.slot.inst = [address |-> 0, clock |-> 0, operation |-> "Program",
                        dirty |-> FALSE]
    /\ last.addr = 0 /\ last.size = 4 /\ last.data = 1
    /\ last.size > config.page_size
    /\ calls[1].address = 0
    /\ calls[1].data.view = <<222, 173, 190, 239>>
    /\ last.ret = 0

\* C9: while initialized, verify(addr, size, data) passes None to T::verify
\* if and only if data is null, whatever size is, and otherwise Some(view)
\* with view the size bytes at data; addr and size are forwarded unchanged.
C9_VerifyNullIsNone ==
    (last.fn = "verify" /\ InitializedBefore) =>
        /\ Len(calls) = 1
        /\ calls[1].method = "verify"
        /\ calls[1].recv = "live"
        /\ calls[1].address = last.addr
        /\ calls[1].size = last.size
        /\ (last.data = 0) <=> (calls[1].data = None)
        /\ (last.data # 0) =>
              /\ calls[1].data.some
              /\ Len(calls[1].data.view) = last.size
              /\ ValidPointer(last.data, last.size) =>
                    \A i \in 1..last.size :
                        calls[1].data.view[i] = HostMemory[last.data + i - 1]

\* verify of an empty buffer behind a non-null pointer
C9_Witness ==
    /\ last.fn = "verify" /\ InitializedBefore
    /\ last.data = 1 /\ last.size = 0
    /\ calls[1].data = Some(<<>>)

----------------------------------------------------------------------------
(* C10: the descriptor *)

\* C10: for a configuration declaring N >= 1 sectors, the sector array of the
\* generated descriptor has N + 1 entries, which is the length count! + 1
\* gives its type; entries 1..N are the declared sectors in order and entry
\* N + 1 is the sentinel of size 0xFFFFFFFF and address 0xFFFFFFFF.
C10_SectorArray ==
    descriptor # <<>> =>
        LET d == descriptor[1]
            N == Len(config.sectors)
        IN  /\ N >= 1
            /\ d.flash_sectors_len = N + 1
            /\ Len(d.flash_sectors) = N + 1
            /\ \A i \in 1..N : d.flash_sectors[i] = config.sectors[i]
            /\ d.flash_sectors[N + 1].size = U32(HALF_MAX, HALF_MAX)
            /\ d.flash_sectors[N + 1].address = U32(HALF_MAX, HALF_MAX)

\* a generated descriptor whose first declared sector looks like the sentinel
C10_Witness ==
    /\ descriptor # <<>>
    /\ Len(config.sectors) = 2
    /\ config.sectors[1].size = U32(HALF_MAX, HALF_MAX)
    /\ Len(descriptor[1].flash_sectors) = 3

----------------------------------------------------------------------------
(* C11 .. C12: ownership of the single instance *)

\* C11: the number of live instances is always 0 or 1: initialize never
\* writes a new instance over a live one without destroying it first, and no
\* destruction is performed on a slot that holds no live instance (no double
\* drop, no drop of never-constructed storage).
C11_AtMostOneLiveInstance ==
    /\ (last.fn = "initialize" /\ last.ret = 0 /\ pre.slot.st = "live") =>
          (calls[1].method = "drop" /\ calls[1].recv = "live")
    /\ \A i \in 1..Len(calls) :
          calls[i].method = "drop" => calls[i].recv = "live"

\* C12: from every reachable state in which the target has not trapped, a
\* call initialize(address, clock, op) with a valid op for which T::create
\* succeeds returns 0 and leaves the flag set and the slot holding exactly
\* the instance create returned, so that the next guarded call is dispatched
\* to that live instance.
C12_InitializeRecovers ==
    ~aborted =>
        \A args \in InitArgs, op \in ValidOps, ub \in UBOutcomes :
            LET s == initialize_body(INIT_FLAG, ALGO_INSTANCE, args[1], args[2],
                                     op, 0, ub)
                made == create(args[1], args[2], DecodeOperation(op), 0).val
                next == erase_sector_body(s.flag, s.slot, 0, Ok, ub)
            IN  /\ ~s.aborted
                /\ s.ret = 0
                /\ s.flag
                /\ s.slot = [st |-> "live", inst |-> made]
                /\ Len(next.calls) = 1 /\ next.calls[1].recv = "live"

----------------------------------------------------------------------------
(* C14 .. C18: dispatch *)

\* C14: no entry point dispatches erase_sector, program_page, erase_chip or
\* verify to the slot unless it holds an instance produced by a successful
\* T::create and not destroyed since; in particular nothing is dispatched
\* after an initialize whose create failed.
C14_DispatchOnlyToLiveInstance ==
    \A i \in 1..Len(calls) :
        calls[i].method \in Operations => calls[i].recv = "live"

\* C15: while initialized, erase_sector, program_page, erase_chip and verify
\* leave the flag true and the slot holding the same instance, neither
\* destroyed nor replaced, whether the method returns Ok or Err; no operation
\* entry point changes the flag in any state.
C15_OperationsKeepInstance ==
    /\ (last.fn \in Operations /\ InitializedBefore) =>
          /\ INIT_FLAG
          /\ ALGO_INSTANCE.st = "live"
          /\ ALGO_INSTANCE.inst.address = pre.slot.inst.address
          /\ ALGO_INSTANCE.inst.clock = pre.slot.inst.clock
          /\ ALGO_INSTANCE.inst.operation = pre.slot.inst.operation
          /\ \A i \in 1..Len(calls) : calls[i].method \notin {"drop", "create"}
    /\ last.fn \in Operations => INIT_FLAG = pre.flag

\* program_page fails with the implementation's code 2 on a live instance
C15_Witness ==
    /\ last.fn = "program_page" /\ InitializedBefore
    /\ last.ret = 2
    /\ INIT_FLAG /\ ALGO_INSTANCE.st = "live"

\* C16: destruction is total: after deinitialize followed by a successful
\* initialize(address, clock, op), the flag, the slot and the methods invoked
\* are those of the same initialize on a system that never held an instance,
\* whatever the earlier initialize arguments and the operations applied to
\* the earlier instance were; later calls depend on the flag and slot alone.
C16_DestructionIsTotal ==
    (last.fn = "initialize" /\ last.ret = 0 /\ pre.life.fn = "deinitialize") =>
        LET fresh == initialize_body(FALSE, Uninit, last.addr, last.clock,
                                     last.op, 0, "proceed")
        IN  /\ INIT_FLAG = fresh.flag
            /\ ALGO_INSTANCE = fresh.slot
            /\ last.ret = fresh.ret
            /\ calls = fresh.calls
            /\ aborted = fresh.aborted

\* the earlier instance had other arguments and had been used
C16_Witness ==
    /\ last.fn = "initialize" /\ last.ret = 0
    /\ pre.life = [fn |-> "deinitialize", ret |-> 0, ok_init |-> TRUE]
    /\ pre.slot.st = "dropped"
    /\ pre.slot.inst.dirty
    /\ pre.slot.inst.address # last.addr
    /\ pre.slot.inst.operation # DecodeOperation(last.op)

\* C17: every initialize call with an op in {1, 2, 3} calls T::create exactly
\* once, with address and clock unchanged and the operation decoded as
\* 1 -> Erase, 2 -> Program, 3 -> Verify, and the implicit deinitialize of a
\* previous instance happens before that call.
C17_CreateCalledOnceWithArguments ==
    (last.fn = "initialize" /\ last.op \in ValidOps) =>
        LET creates == {i \in 1..Len(calls) : calls[i].method = "create"}
        IN  /\ Cardinality(creates) = 1
            /\ \A i \in creates :
                  /\ calls[i].address = last.addr
                  /\ calls[i].clock = last.clock
                  /\ calls[i].operation =
                        (CASE last.op = 1 -> "Erase"
                           [] last.op = 2 -> "Program"
                           [] last.op = 3 -> "Verify")
                  /\ \A j \in 1..Len(calls) : calls[j].method = "drop" => j < i

\* C18: an operation entry point returns 0 only if that call dispatched
\* exactly once, to the matching implementation method, on the live instance,
\* and that method returned Ok(()).
C18_ZeroOnlyAfterSuccessfulDispatch ==
    (last.fn \in Operations /\ last.ret = 0) =>
        /\ Len(calls) = 1
        /\ calls[1].method = last.fn
        /\ calls[1].recv = "live"
        /\ calls[1].result = Ok

----------------------------------------------------------------------------
(* C13: the ordering of the statements inside initialize and deinitialize *)

\* C13: at every statement of initialize and deinitialize, INIT_FLAG is true
\* only while the slot holds a fully constructed, not yet destroyed instance:
\* initialize sets the flag only after T::create has succeeded and the
\* instance has been written, and deinitialize clears it before it destroys
\* the instance.
C13_FlagOnlyWhileInstanceLive ==
    INIT_FLAG => ALGO_INSTANCE.st = "live"

====
